---- MODULE Spec2Model ----
(***************************************************************************)
(* Model of app.py (Tesla One-Stop dashboard): the price retrieval         *)
(* fallback chain safe_yf_download, the SEC 13F position extraction        *)
(* sec_tsla_position_from_13f, the holdings table build_13f_table and the  *)
(* incremental poller x_fetch_latest_tweets.                               *)
(*                                                                         *)
(* Each adapter has its own specification (SpecPrice, SpecPos, SpecTable,  *)
(* SpecX); the variables of the other adapters stay at their idle values.  *)
(***************************************************************************)
EXTENDS Integers, Sequences, FiniteSets, TLC

VARIABLES
    \* safe_yf_download
    period, interval,   \* the request
    pc,                 \* position inside safe_yf_download
    combos,             \* the fallback list built at lines 122-127
    idx,                \* loop index of "for p, i in combos"
    last_err,           \* last_err
    attempts,           \* log of the calls made to the upstream sources
    result,             \* the returned tuple (df, used, note)
    \* sec_tsla_position_from_13f
    pos_pc,             \* position inside sec_tsla_position_from_13f
    pos_url,            \* url (0 is None, else the position of the file in the index)
    pos_text,           \* r.text, the downloaded document
    pos_df,             \* df, the parsed line items
    pos_result,         \* the returned snapshot
    \* build_13f_table
    mi,                 \* loop index of "for name, cik in managers.items()"
    out,                \* the list of rows, out
    fetched,            \* log: per manager, the listing and the snapshots obtained
    table,              \* the returned data frame, as the sequence of its rows
    tb_pc,              \* position inside build_13f_table
    \* x_fetch_latest_tweets
    bearer,             \* whether X_BEARER is configured
    timeline,           \* the ids of the account's posts, upstream
    since_id,           \* the cursor passed in
    x_pc,               \* position inside x_fetch_latest_tweets / _x_api_get
    x_host,             \* index of the API host being tried
    x_js,               \* js, what _x_api_get returned
    x_result            \* the returned (data, new_since)

priceVars == <<period, interval, pc, combos, idx, last_err, attempts, result>>
posVars   == <<pos_pc, pos_url, pos_text, pos_df, pos_result>>
tableVars == <<mi, out, fetched, table, tb_pc>>
xVars     == <<bearer, timeline, since_id, x_pc, x_host, x_js, x_result>>
vars      == <<priceVars, posVars, tableVars, xVars>>

(***************************************************************************)
(* Bounds                                                                  *)
(***************************************************************************)
MaxRows == 2        \* longest price series an upstream source returns
MaxFiles == 2       \* most files listed in a filing's index.json
MaxItems == 2       \* most infoTable line items in a document
NumManagers == 2    \* entries of the managers mapping, in insertion order

(***************************************************************************)
(* safe_yf_download (src/app.py:105-169)                                   *)
(***************************************************************************)
INTRADAY == {"1m", "2m", "5m", "15m", "30m", "60m", "90m"}

\* Requests: the periods and intervals a caller passes (the chart page offers
\* these and more; the function accepts any string).
Periods   == {"1d", "5d", "1mo", "1y"}
Intervals == {"1m", "5m", "1h", "1d"}

\* A data frame: its rows (timestamps in ascending order; na marks a row with a
\* missing cell) and whether its columns are a MultiIndex.
Row(t, na)  == [t |-> t, na |-> na]
FrameOf(rows, multi) == [rows |-> rows, multi |-> multi]
EmptyFrame  == FrameOf(<<>>, FALSE)
IsEmpty(df) == Len(df.rows) = 0

CleanRows(n) == [k \in 1..n |-> Row(k, FALSE)]
\* what yfinance.Ticker.history can return: flat columns
HistoryFrames  == {FrameOf(CleanRows(n), FALSE) : n \in 0..MaxRows}
\* what yfinance.download can return: flat or MultiIndex columns
DownloadFrames == {FrameOf(CleanRows(n), m) : n \in 0..MaxRows, m \in BOOLEAN}
\* what the Stooq CSV can hold: rows, some with missing cells
StooqCsvs == UNION {[1..n -> {Row(k, b) : k \in 1..MaxRows, b \in BOOLEAN}] : n \in 0..MaxRows}
StooqRaw  == {c \in StooqCsvs : \A k \in 1..Len(c) : c[k].t = k}

\* notes: None, a source label, or an error text
NoneNote        == [kind |-> "None", text |-> "", p |-> "", i |-> ""]
Label(text)     == [kind |-> "label", text |-> text, p |-> "", i |-> ""]
ErrNote(site, p, i) == [kind |-> "error", text |-> site, p |-> p, i |-> i]
Truthy(note)    == note.kind # "None"

NoneUsed == <<>>

IntervalFixed_NoAlias(i) == i

\* line 119: interval_fixed = {"1h": "60m"}.get(interval, interval)
IntervalFixed(i) == IF i = "1h" THEN "60m" ELSE i

BuildCombos_FallbacksSwapped(p, ifx) ==
    <<<<p, ifx>>>>
    \o (IF ifx \in {"1m", "2m", "5m", "15m", "30m", "60m", "90m"}
           /\ p \notin {"1d", "5d", "7d", "1mo", "3mo", "6mo", "60d", "90d"}
        THEN <<<<"1mo", "5m">>>> ELSE <<>>)
    \o (IF ifx = "1m" /\ p \notin {"1d", "5d", "7d"} THEN <<<<"5d", "1m">>>> ELSE <<>>)
    \o <<<<"1y", "1d">>>>

\* lines 122-127: the ordered list of (period, interval) candidates
BuildCombos(p, ifx) ==
    LET c1 == <<<<p, ifx>>>>
        c2 == IF ifx = "1m" /\ p \notin {"1d", "5d", "7d"}
              THEN Append(c1, <<"5d", "1m">>) ELSE c1
        c3 == IF ifx \in INTRADAY
                 /\ p \notin {"1d", "5d", "7d", "1mo", "3mo", "6mo", "60d", "90d"}
              THEN Append(c2, <<"1mo", "5m">>) ELSE c2
    IN  Append(c3, <<"1y", "1d">>)

\* lines 148-149: MultiIndex columns are flattened
FlattenColumns(df) == FrameOf(df.rows, FALSE)

\* line 162: stooq.dropna()
DropNa(rows) == SelectSeq(rows, LAMBDA r : ~r.na)

Catches_NotDownload(site) == site \in {"history", "Stooq"}

\* the except clauses of lines 137, 152 and 165 catch Exception at every site
Catches(site) == site \in {"history", "download", "Stooq"}

Returned(df, used, note) == [df |-> df, used |-> used, note |-> note]
NoResult == Returned(EmptyFrame, NoneUsed, NoneNote)

\* line 136: return df, (period, interval_fixed), "yfinance.history"
HistoryReturn(df, p, ifx) == Returned(df, <<p, ifx>>, Label("yfinance.history"))
\* line 151: return df, (p, i), "yfinance.download"
DownloadReturn(df, p, i) == Returned(df, <<p, i>>, Label("yfinance.download"))
StooqReturn_AsYahooDaily(stooq) ==
    [df |-> stooq, used |-> <<"1y", "1d">>, note |-> [kind |-> "None", text |-> "", p |-> "", i |-> ""]]

\* line 164: return stooq, ("stooq-daily","1d"), "Yahoo empty -> Stooq daily fallback"
StooqReturn(stooq) ==
    Returned(stooq, <<"stooq-daily", "1d">>, Label("Yahoo empty -> Stooq daily fallback"))
\* line 169: return pd.DataFrame(), None, last_err
FailReturn(err) == Returned(EmptyFrame, NoneUsed, err)

Attempt(src, p, i, outcome) == [src |-> src, p |-> p, i |-> i, exc |-> outcome.exc, df |-> outcome.df]
Raises    == [exc |-> TRUE, df |-> EmptyFrame]
Gives(df) == [exc |-> FALSE, df |-> df]

PriceIdle ==
    /\ period = "" /\ interval = "" /\ pc = "idle" /\ combos = <<>> /\ idx = 0
    /\ last_err = NoneNote /\ attempts = <<>> /\ result = NoResult

PriceInit ==
    /\ period \in Periods
    /\ interval \in Intervals
    /\ pc = "start"
    /\ combos = <<>>
    /\ idx = 0
    /\ last_err = NoneNote
    /\ attempts = <<>>
    /\ result = NoResult

\* lines 114-129: build the candidate list, last_err = None
BuildRequest ==
    /\ pc = "start"
    /\ combos' = BuildCombos(period, IntervalFixed(interval))
    /\ last_err' = NoneNote
    /\ idx' = 1
    /\ pc' = "history"
    /\ UNCHANGED <<period, interval, attempts, result>>
    /\ UNCHANGED <<posVars, tableVars, xVars>>

\* lines 132-138: yf.Ticker(symbol).history(period, interval_fixed)
TryHistory ==
    /\ pc = "history"
    /\ \E o \in {Raises} \cup {Gives(df) : df \in HistoryFrames} :
         LET ifx == IntervalFixed(interval) IN
         /\ attempts' = Append(attempts, Attempt("history", period, ifx, o))
         /\ IF o.exc
            THEN IF Catches("history")
                 THEN /\ last_err' = ErrNote("history", "", "")
                      /\ pc' = "download"
                      /\ UNCHANGED result
                 ELSE /\ pc' = "raised"
                      /\ UNCHANGED <<last_err, result>>
            ELSE IF ~IsEmpty(o.df)
                 THEN /\ result' = HistoryReturn(o.df, period, ifx)
                      /\ pc' = "done"
                      /\ UNCHANGED last_err
                 ELSE /\ pc' = "download"
                      /\ UNCHANGED <<last_err, result>>
    /\ UNCHANGED <<period, interval, combos, idx>>
    /\ UNCHANGED <<posVars, tableVars, xVars>>

\* lines 141-153: one iteration of "for p, i in combos"
TryDownload ==
    /\ pc = "download"
    /\ idx <= Len(combos)
    /\ \E o \in {Raises} \cup {Gives(df) : df \in DownloadFrames} :
         LET p == combos[idx][1]
             i == combos[idx][2]
         IN
         /\ attempts' = Append(attempts, Attempt("download", p, i, o))
         /\ IF o.exc
            THEN IF Catches("download")
                 THEN /\ last_err' = ErrNote("download", p, i)
                      /\ idx' = idx + 1
                      /\ UNCHANGED <<pc, result>>
                 ELSE /\ pc' = "raised"
                      /\ UNCHANGED <<last_err, idx, result>>
            ELSE LET df == IF o.df.multi THEN FlattenColumns(o.df) ELSE o.df IN
                 IF ~IsEmpty(df)
                 THEN /\ result' = DownloadReturn(df, p, i)
                      /\ pc' = "done"
                      /\ UNCHANGED <<last_err, idx>>
                 ELSE /\ idx' = idx + 1
                      /\ UNCHANGED <<pc, last_err, result>>
    /\ UNCHANGED <<period, interval, combos>>
    /\ UNCHANGED <<posVars, tableVars, xVars>>

\* lines 156-169: the Stooq daily CSV, then the final return
TryStooq ==
    /\ pc = "download"
    /\ idx > Len(combos)
    /\ \E o \in {Raises} \cup {Gives(FrameOf(c, FALSE)) : c \in StooqRaw} :
         /\ attempts' = Append(attempts, Attempt("Stooq", "", "", o))
         /\ IF o.exc
            THEN IF Catches("Stooq")
                 THEN /\ last_err' = ErrNote("Stooq", "", "")
                      /\ result' = FailReturn(ErrNote("Stooq", "", ""))
                      /\ pc' = "done"
                 ELSE /\ pc' = "raised"
                      /\ UNCHANGED <<last_err, result>>
            ELSE LET stooq == FrameOf(DropNa(o.df.rows), FALSE) IN
                 IF ~IsEmpty(stooq)
                 THEN /\ result' = StooqReturn(stooq)
                      /\ pc' = "done"
                      /\ UNCHANGED last_err
                 ELSE /\ result' = FailReturn(last_err)
                      /\ pc' = "done"
                      /\ UNCHANGED last_err
    /\ UNCHANGED <<period, interval, combos, idx>>
    /\ UNCHANGED <<posVars, tableVars, xVars>>

PriceNext ==
    \/ BuildRequest
    \/ TryHistory
    \/ TryDownload
    \/ TryStooq

(***************************************************************************)
(* Text: a Python str is a sequence of one-character strings               *)
(***************************************************************************)
Digits == {"0", "1", "2", "3", "4", "5", "6", "7", "8", "9"}
DigitVal(c) ==
    CASE c = "0" -> 0 [] c = "1" -> 1 [] c = "2" -> 2 [] c = "3" -> 3 [] c = "4" -> 4
      [] c = "5" -> 5 [] c = "6" -> 6 [] c = "7" -> 7 [] c = "8" -> 8 [] c = "9" -> 9

\* str.upper() on the letters the model's texts use
UpperChar(c) ==
    CASE c = "t" -> "T" [] c = "e" -> "E" [] c = "s" -> "S" [] c = "l" -> "L"
      [] c = "a" -> "A" [] OTHER -> c
Upper(s) == [k \in 1..Len(s) |-> UpperChar(s[k])]

\* str.startswith(prefix)
StartsWith(s, prefix) ==
    /\ Len(s) >= Len(prefix)
    /\ SubSeq(s, 1, Len(prefix)) = prefix

\* re.search(sub, s, IGNORECASE) for a literal sub (str.contains(..., case=False))
ContainsNoCase(s, sub) ==
    \E k \in 1..(Len(s) - Len(sub) + 1) :
        SubSeq(Upper(s), k, k + Len(sub) - 1) = Upper(sub)

\* str.replace(",", "")
RemoveCommas(s) == SelectSeq(s, LAMBDA c : c # ",")

\* str.strip()
RECURSIVE LStrip(_)
LStrip(s) == IF s # <<>> /\ Head(s) = " " THEN LStrip(Tail(s)) ELSE s
RECURSIVE RStrip(_)
RStrip(s) == IF s # <<>> /\ s[Len(s)] = " " THEN RStrip(SubSeq(s, 1, Len(s) - 1)) ELSE s
Strip(s) == RStrip(LStrip(s))

\* Optional[int]
NoInt     == [some |-> FALSE, v |-> 0]
SomeInt(n) == [some |-> TRUE, v |-> n]

RECURSIVE DecimalValue(_)
DecimalValue(ds) ==
    IF ds = <<>> THEN 0
    ELSE 10 * DecimalValue(SubSeq(ds, 1, Len(ds) - 1)) + DigitVal(ds[Len(ds)])

\* int(s): an optional sign and then one or more digits; anything else raises
ParseInt(s) ==
    LET signed == s # <<>> /\ Head(s) \in {"+", "-"}
        body   == IF signed THEN Tail(s) ELSE s
    IN  IF body # <<>> /\ \A k \in 1..Len(body) : body[k] \in Digits
        THEN SomeInt(IF signed /\ Head(s) = "-" THEN 0 - DecimalValue(body)
                     ELSE DecimalValue(body))
        ELSE NoInt

\* an XML field of a line item: absent, or present with its text
NoField     == [present |-> FALSE, text |-> <<>>]
Field(text) == [present |-> TRUE, text |-> text]
\* str(x) of Element.findtext(...): "None" when the element is absent
StrOf(f) == IF f.present THEN f.text ELSE <<"N", "o", "n", "e">>

\* lines 212-216: _to_int
ToInt(x) == ParseInt(Strip(RemoveCommas(x)))

(***************************************************************************)
(* SEC 13F (src/app.py:209-299)                                            *)
(***************************************************************************)
CUSIP_TSLA_PREFIX == <<"8", "8", "1", "6", "0", "R">>
TESLA == <<"T", "E", "S", "L", "A">>

CusipTsla  == <<"8", "8", "1", "6", "0", "R", "1", "0", "1">>
CusipOther == <<"0", "3", "7", "8", "3", "3", "1", "0", "0">>

LineItem(issuer, cusip, amt, value) ==
    [nameOfIssuer |-> issuer, cusip |-> cusip, sshPrnamt |-> amt, value |-> value]

ItemTesla1000 == LineItem(<<"T", "E", "S", "L", "A", " ", "I", "N", "C">>, CusipTsla,
                          Field(<<"1", ",", "0", "0", "0">>), Field(<<"1", "2">>))
ItemTesla7    == LineItem(<<" ", "T", "e", "s", "l", "a", " ">>, CusipOther,
                          Field(<<"7">>), NoField)
ItemSigned    == LineItem(<<"T", "S", "L", "A">>, CusipTsla,
                          Field(<<"-", "5">>), Field(<<"-", "2">>))
ItemApple     == LineItem(<<"A", "P", "P", "L", "E">>, CusipOther,
                          Field(<<"9">>), Field(<<"3">>))
ItemMalformed == LineItem(<<"T", "E", "S", "L", "A">>, <<>>,
                          Field(<<"x">>), Field(<<>>))
ItemNoShares  == LineItem(<<"T", "E", "S", "L", "A">>, CusipTsla,
                          NoField, Field(<<" ", "+", "3", " ">>))

\* the line items a document can hold
LineItems == {ItemTesla1000, ItemTesla7, ItemSigned, ItemApple, ItemMalformed, ItemNoShares}

ItemSeqs == UNION {[1..n -> LineItems] : n \in 0..MaxItems}

\* a downloaded document: r.text. blank: the body is empty; wrapped: the XML sits
\* inside a .txt submission wrapper; hasTable: an <informationTable> element is
\* present; wellformed: the XML parses; items: its <infoTable> elements.
Document(blank, wrapped, hasTable, wellformed, items) ==
    [blank |-> blank, wrapped |-> wrapped, hasTable |-> hasTable,
     wellformed |-> wellformed, items |-> items]
BlankDoc == Document(TRUE, FALSE, FALSE, FALSE, <<>>)
Documents ==
    {BlankDoc}
    \cup {Document(FALSE, w, FALSE, f, <<>>) : w \in BOOLEAN, f \in BOOLEAN}
    \cup {Document(FALSE, w, TRUE, f, its) : w \in BOOLEAN, f \in BOOLEAN, its \in ItemSeqs}

\* an HTTP response: the request raised, or answered with r.ok and a body
HttpRaises     == [exc |-> TRUE, ok |-> FALSE, body |-> BlankDoc]
HttpStatus(ok, body) == [exc |-> FALSE, ok |-> ok, body |-> body]
DocResponses == {HttpRaises, HttpStatus(FALSE, BlankDoc)}
                \cup {HttpStatus(TRUE, d) : d \in Documents}

\* a file of a filing's index.json: its extension and whether its lower-cased
\* name contains "infotable", "informationtable" or "form13f"
IndexFile(ext, info) == [ext |-> ext, info |-> info]
IndexFiles == {IndexFile("xml", TRUE), IndexFile("xml", FALSE),
               IndexFile("txt", FALSE), IndexFile("htm", FALSE)}
FileLists  == UNION {[1..n -> IndexFiles] : n \in 0..MaxFiles}
IndexRaises  == [exc |-> TRUE, ok |-> FALSE, files |-> <<>>]
IndexStatus(ok, files) == [exc |-> FALSE, ok |-> ok, files |-> files]
IndexResponses == {IndexRaises, IndexStatus(FALSE, <<>>)}
                  \cup {IndexStatus(TRUE, fs) : fs \in FileLists}

\* position snapshots: a dict, None, or an exception leaving the function
Snapshot(shares, value_usd) == [kind |-> "dict", shares |-> shares, value_usd |-> value_usd]
NonePos   == [kind |-> "None", shares |-> 0, value_usd |-> 0]
RaisedPos == [kind |-> "raised", shares |-> 0, value_usd |-> 0]
ZeroSnapshot == Snapshot(0, 0)

FirstIndex(S) == IF S = {} THEN 0 ELSE CHOOSE k \in S : \A j \in S : k <= j

\* lines 248-262: sec_find_infotable_url; the url is the position of the chosen
\* file in the index, 0 for None
SecFindInfotableUrl(ix) ==
    IF ix.exc THEN [exc |-> TRUE, url |-> 0]
    ELSE IF ~ix.ok THEN [exc |-> FALSE, url |-> 0]
    ELSE LET xmls == {k \in 1..Len(ix.files) : ix.files[k].ext = "xml" /\ ix.files[k].info}
             txts == {k \in 1..Len(ix.files) : ix.files[k].ext = "txt"}
         IN  [exc |-> FALSE,
              url |-> IF xmls # {} THEN FirstIndex(xmls) ELSE FirstIndex(txts)]

\* lines 271-277: one row of the parsed table
ParseItem(it) ==
    LET shares == IF it.sshPrnamt.present /\ it.sshPrnamt.text # <<>>
                  THEN ToInt(it.sshPrnamt.text) ELSE NoInt
        val    == ToInt(StrOf(it.value))
    IN  [issuer    |-> Strip(it.nameOfIssuer),
         cusip     |-> Strip(it.cusip),
         shares    |-> shares,
         value_usd |-> IF val.some THEN SomeInt(val.v * 1000) ELSE NoInt]

\* lines 264-278: _parse_infotable_xml; ET.fromstring raises on text that is not
\* well-formed XML (a submission wrapper with no table to cut out, a broken tree)
ParseInfotableXml(doc) ==
    LET cut == IF doc.hasTable THEN [doc EXCEPT !.wrapped = FALSE] ELSE doc
    IN  IF cut.wrapped \/ ~cut.wellformed
        THEN [exc |-> TRUE, rows |-> <<>>]
        ELSE [exc |-> FALSE, rows |-> [k \in 1..Len(cut.items) |-> ParseItem(cut.items[k])]]

\* lines 292-293: the rows of the tracked issuer
Matches(r) ==
    \/ StartsWith(r.cusip, CUSIP_TSLA_PREFIX)
    \/ ContainsNoCase(r.issuer, TESLA)

\* Series.fillna(0).sum()
RECURSIVE SumFillNa(_)
SumFillNa(xs) ==
    IF xs = <<>> THEN 0
    ELSE (IF Head(xs).some THEN Head(xs).v ELSE 0) + SumFillNa(Tail(xs))

TslaPosition_NoneWithoutMatch(rows) ==
    IF rows = <<>> THEN [kind |-> "dict", shares |-> 0, value_usd |-> 0]
    ELSE LET m == SelectSeq(rows, Matches) IN
         IF m = <<>> THEN [kind |-> "None", shares |-> 0, value_usd |-> 0]
         ELSE [kind |-> "dict",
               shares |-> SumFillNa([k \in 1..Len(m) |-> m[k].shares]),
               value_usd |-> SumFillNa([k \in 1..Len(m) |-> m[k].value_usd])]

\* lines 290-299: the snapshot of a parsed table
TslaPosition(rows) ==
    IF rows = <<>> THEN ZeroSnapshot
    ELSE LET m == SelectSeq(rows, Matches) IN
         IF m = <<>> THEN ZeroSnapshot
         ELSE Snapshot(SumFillNa([k \in 1..Len(m) |-> m[k].shares]),
                       SumFillNa([k \in 1..Len(m) |-> m[k].value_usd]))

\* line 285: if not r.ok or not r.text: return None
Unusable(resp) == ~resp.ok \/ resp.body.blank

OnParseError_ZeroSnapshot == [kind |-> "dict", shares |-> 0, value_usd |-> 0]

\* lines 286-289: a parse failure returns None
OnParseError == NonePos

\* lines 284-299: from the download of the document to the return
PositionOfResponse(resp) ==
    IF resp.exc THEN RaisedPos
    ELSE IF Unusable(resp) THEN NonePos
    ELSE LET parsed == ParseInfotableXml(resp.body) IN
         IF parsed.exc THEN OnParseError ELSE TslaPosition(parsed.rows)

\* lines 280-299: sec_tsla_position_from_13f on what the SEC answers for a filing
SecTslaPositionFrom13f(f) ==
    LET u == SecFindInfotableUrl(f.index) IN
    IF u.exc THEN RaisedPos
    ELSE IF u.url = 0 THEN NonePos
    ELSE PositionOfResponse(f.get)

NoRows == <<>>

PosIdle ==
    /\ pos_pc = "idle" /\ pos_url = 0 /\ pos_text = HttpRaises
    /\ pos_df = NoRows /\ pos_result = NonePos

PosInit ==
    /\ pos_pc = "find"
    /\ pos_url = 0
    /\ pos_text = HttpRaises
    /\ pos_df = NoRows
    /\ pos_result = NonePos

\* lines 282-283: url = sec_find_infotable_url(...); if not url: return None
PosFindUrl ==
    /\ pos_pc = "find"
    /\ \E ix \in IndexResponses :
         LET u == SecFindInfotableUrl(ix) IN
         /\ pos_url' = u.url
         /\ IF u.exc THEN pos_pc' = "raised" /\ pos_result' = RaisedPos
            ELSE IF u.url = 0 THEN pos_pc' = "done" /\ pos_result' = NonePos
            ELSE pos_pc' = "get" /\ UNCHANGED pos_result
    /\ UNCHANGED <<pos_text, pos_df>>
    /\ UNCHANGED <<priceVars, tableVars, xVars>>

\* lines 284-285: r = requests.get(url); if not r.ok or not r.text: return None
PosDownload ==
    /\ pos_pc = "get"
    /\ \E resp \in DocResponses :
         /\ pos_text' = resp
         /\ IF resp.exc THEN pos_pc' = "raised" /\ pos_result' = RaisedPos
            ELSE IF Unusable(resp) THEN pos_pc' = "done" /\ pos_result' = NonePos
            ELSE pos_pc' = "parse" /\ UNCHANGED pos_result
    /\ UNCHANGED <<pos_url, pos_df>>
    /\ UNCHANGED <<priceVars, tableVars, xVars>>

\* lines 286-289: df = _parse_infotable_xml(r.text), None on an exception
PosParse ==
    /\ pos_pc = "parse"
    /\ LET parsed == ParseInfotableXml(pos_text.body) IN
         IF parsed.exc
         THEN pos_pc' = "done" /\ pos_result' = OnParseError /\ UNCHANGED pos_df
         ELSE pos_pc' = "select" /\ pos_df' = parsed.rows /\ UNCHANGED pos_result
    /\ UNCHANGED <<pos_url, pos_text>>
    /\ UNCHANGED <<priceVars, tableVars, xVars>>

\* lines 290-299: the zero snapshot, or the sums over the matching rows
PosSelect ==
    /\ pos_pc = "select"
    /\ pos_result' = TslaPosition(pos_df)
    /\ pos_pc' = "done"
    /\ UNCHANGED <<pos_url, pos_text, pos_df>>
    /\ UNCHANGED <<priceVars, tableVars, xVars>>

PosNext == PosFindUrl \/ PosDownload \/ PosParse \/ PosSelect

(***************************************************************************)
(* build_13f_table (src/app.py:301-329)                                    *)
(***************************************************************************)
AccLimit == 2       \* sec_list_13f_accessions(cik, limit=2)

Filing(ix, resp) == [index |-> ix, get |-> resp]
InfoXmlIndex == IndexStatus(TRUE, <<IndexFile("htm", FALSE), IndexFile("xml", TRUE)>>)
DocOf(items) == HttpStatus(TRUE, Document(FALSE, FALSE, TRUE, TRUE, items))

\* what the SEC can answer for one filing of a manager: the index request raises,
\* the index lists no usable file, the document is a broken tree, the document
\* holds no line of the tracked issuer, the document holds 1000 or 7 shares
TableFilings == {
    Filing(IndexRaises, HttpRaises),
    Filing(IndexStatus(TRUE, <<IndexFile("htm", FALSE)>>), HttpRaises),
    Filing(InfoXmlIndex, HttpStatus(TRUE, Document(FALSE, FALSE, TRUE, FALSE, <<ItemTesla7>>))),
    Filing(InfoXmlIndex, DocOf(<<ItemApple>>)),
    Filing(InfoXmlIndex, DocOf(<<ItemApple, ItemTesla1000>>)),
    Filing(InfoXmlIndex, DocOf(<<ItemTesla7>>)) }

\* what sec_list_13f_accessions returns: it raises, or lists up to limit filings
ListingRaises == [exc |-> TRUE, accs |-> <<>>]
Listing(accs) == [exc |-> FALSE, accs |-> accs]
Listings == {ListingRaises}
            \cup {Listing(a) : a \in UNION {[1..n -> TableFilings] : n \in 0..AccLimit}}

\* a dict is true when it is not empty: every snapshot dict has its two keys
TruthyPos(pos) == pos.kind = "dict"

\* lines 311-312: shares / value_usd of the row, None without a latest snapshot
RowShares(latest_pos) == IF TruthyPos(latest_pos) THEN SomeInt(latest_pos.shares) ELSE NoInt
RowValue(latest_pos)  == IF TruthyPos(latest_pos) THEN SomeInt(latest_pos.value_usd) ELSE NoInt

Delta_ZeroIsFalsy(latest_pos, prev_pos) ==
    IF /\ latest_pos.kind = "dict" /\ latest_pos.shares # 0
       /\ prev_pos.kind = "dict" /\ prev_pos.shares # 0
    THEN [some |-> TRUE, v |-> latest_pos.shares - prev_pos.shares]
    ELSE [some |-> FALSE, v |-> 0]

\* lines 313-315: the quarter-over-quarter delta
Delta(latest_pos, prev_pos) ==
    IF TruthyPos(latest_pos) /\ TruthyPos(prev_pos)
    THEN SomeInt(latest_pos.shares - prev_pos.shares)
    ELSE NoInt

\* lines 316-323: the row appended to out
BuildRow(name, latest_pos, prev_pos) ==
    [name   |-> name,
     shares |-> RowShares(latest_pos),
     value_usd |-> RowValue(latest_pos),
     delta  |-> Delta(latest_pos, prev_pos)]

\* the snapshots of one manager and what became of its loop iteration
\* (listed: the number of filings listed, -1 when the listing request raised)
\* (accs: the filings listed, as the SEC answers for them)
Fetched(how, listed, accs, latest_pos, prev_pos) ==
    [how |-> how, listed |-> listed, accs |-> accs, latest |-> latest_pos, prev |-> prev_pos]
NotFetched == Fetched("pending", 0, <<>>, NonePos, NonePos)

\* lines 304-325: one iteration of the loop over managers, given what the SEC
\* answers. how: "raised" (except: continue), "nofilings" (if not accs: continue)
\* or "row" (out.append)
ProcessManager(lst) ==
    IF lst.exc THEN Fetched("raised", 0 - 1, <<>>, NonePos, NonePos)
    ELSE IF lst.accs = <<>> THEN Fetched("nofilings", 0, <<>>, NonePos, NonePos)
    ELSE LET latest_pos == SecTslaPositionFrom13f(lst.accs[1])
             prev_pos   == IF Len(lst.accs) > 1
                           THEN SecTslaPositionFrom13f(lst.accs[2]) ELSE NonePos
             n          == Len(lst.accs)
         IN  IF latest_pos.kind = "raised"
             THEN Fetched("raised", n, lst.accs, latest_pos, NonePos)
             ELSE IF prev_pos.kind = "raised"
             THEN Fetched("raised", n, lst.accs, latest_pos, prev_pos)
             ELSE Fetched("row", n, lst.accs, latest_pos, prev_pos)

AppendsRow_OnlyWithSnapshot(f) == f.how = "row" /\ f.latest.kind = "dict"

\* line 316: whether the iteration appends its row
AppendsRow(f) == f.how = "row"

NextIndex_AbortOnRaise(i, f) == IF f.how = "raised" THEN NumManagers + 1 ELSE i + 1

\* lines 303, 306, 324-325: "continue" and the end of the body both go on with
\* the next manager
NextIndex(i, f) == i + 1

Perms(n) == {f \in [1..n -> 1..n] : \A a, b \in 1..n : a # b => f[a] # f[b]}

\* rows in descending order of shares, the rows without shares (NaN) last
Descending(rows) ==
    \A a, b \in 1..Len(rows) :
        a < b => \/ ~rows[b].shares.some
                 \/ rows[a].shares.some /\ rows[a].shares.v >= rows[b].shares.v

\* the NaN rows keep their input order (pandas nargsort appends them as they are)
NaNInOrder(rows, perm) ==
    \A a, b \in 1..Len(rows) :
        (a < b /\ ~rows[perm[a]].shares.some /\ ~rows[perm[b]].shares.some) => perm[a] < perm[b]

\* line 328: df.sort_values(by=[shares], ascending=False) with the default
\* kind="quicksort", which is not a stable sort: rows of equal shares may come out
\* in any order
SortValues(rows) ==
    {[k \in 1..Len(rows) |-> rows[p[k]]] : p \in
        {q \in Perms(Len(rows)) :
            /\ Descending([k \in 1..Len(rows) |-> rows[q[k]]])
            /\ NaNInOrder(rows, q)}}

TableIdle ==
    /\ mi = 0 /\ out = <<>> /\ fetched = <<>> /\ table = <<>> /\ tb_pc = "idle"

TableInit ==
    /\ mi = 1
    /\ out = <<>>
    /\ fetched = [k \in 1..NumManagers |-> NotFetched]
    /\ table = <<>>
    /\ tb_pc = "loop"

\* lines 303-325: the loop body for the manager at position mi
TableProcess ==
    /\ tb_pc = "loop"
    /\ mi <= NumManagers
    /\ \E lst \in Listings :
         LET f == ProcessManager(lst) IN
         /\ fetched' = [fetched EXCEPT ![mi] = f]
         /\ out' = IF AppendsRow(f) THEN Append(out, BuildRow(mi, f.latest, f.prev)) ELSE out
         /\ mi' = NextIndex(mi, f)
    /\ UNCHANGED <<table, tb_pc>>
    /\ UNCHANGED <<priceVars, posVars, xVars>>

\* lines 326-329: the data frame of out, sorted unless empty
TableSort ==
    /\ tb_pc = "loop"
    /\ mi > NumManagers
    /\ table' \in (IF out = <<>> THEN {<<>>} ELSE SortValues(out))
    /\ tb_pc' = "done"
    /\ UNCHANGED <<mi, out, fetched>>
    /\ UNCHANGED <<priceVars, posVars, xVars>>

TableNext == TableProcess \/ TableSort

(***************************************************************************)
(* x_fetch_latest_tweets and _x_api_get (src/app.py:334-366)               *)
(***************************************************************************)
MaxResults == 5     \* max_results: int = 5
NumHosts   == 2     \* ("https://api.x.com", "https://api.twitter.com")

\* post ids are decimal strings; the ids an account's timeline can hold
IdPool == {<<"8">>, <<"9">>, <<"1", "0">>, <<"1", "1">>, <<"9", "9">>, <<"1", "0", "0">>}

\* Optional[str]
NoneId     == [some |-> FALSE, id |-> <<>>]
SomeId(id) == [some |-> TRUE, id |-> id]

\* the numeric value of an id: the source's native ordering
NumVal(id) == DecimalValue(id)

\* Python's < on str: lexicographic, a proper prefix is smaller
StrLess(a, b) ==
    \E k \in 1..(Len(b)) :
        /\ \A j \in 1..(k - 1) : j <= Len(a) /\ a[j] = b[j]
        /\ \/ k = Len(a) + 1
           \/ k <= Len(a) /\ DigitVal(a[k]) < DigitVal(b[k])

Tweet(id) == [id |-> id]

RECURSIVE NewestFirst(_)
NewestFirst(S) ==
    IF S = {} THEN <<>>
    ELSE LET m == CHOOSE x \in S : \A y \in S : NumVal(y) <= NumVal(x)
         IN  <<Tweet(m)>> \o NewestFirst(S \ {m})

FirstN(s, n) == SubSeq(s, 1, IF Len(s) < n THEN Len(s) ELSE n)

\* the body the API answers GET /2/users/{id}/tweets with: the newest
\* max_results posts after since_id, newest first; no "data" key when there is none
ApiJson(tl, since, max) ==
    LET after == IF since.some THEN {t \in tl : NumVal(t) > NumVal(since.id)} ELSE tl
        data  == FirstN(NewestFirst(after), max)
    IN  [isNone |-> FALSE, hasData |-> data # <<>>, data |-> data]
NoneJson == [isNone |-> TRUE, hasData |-> FALSE, data |-> <<>>]

\* line 360: if since_id: params["since_id"] = since_id
SinceParam(since) == IF since.some /\ since.id # <<>> THEN since ELSE NoneId

\* line 364: data.sort(key=lambda t: t.get("id")): the ids are str
SortById(data) == SortSeq(data, LAMBDA a, b : StrLess(a.id, b.id))

\* lines 362-366: from js to the returned (data, new_since)
FetchResult(js, since) ==
    IF js.isNone THEN [data |-> <<>>, new_since |-> since]
    ELSE LET data == SortById(IF js.hasData THEN js.data ELSE <<>>) IN
         [data |-> data,
          new_since |-> IF data # <<>> THEN SomeId(data[Len(data)].id) ELSE since]

XIdle ==
    /\ bearer = FALSE /\ timeline = {} /\ since_id = NoneId /\ x_pc = "idle"
    /\ x_host = 0 /\ x_js = NoneJson /\ x_result = [data |-> <<>>, new_since |-> NoneId]

XInit ==
    /\ bearer \in BOOLEAN
    /\ timeline \in SUBSET IdPool
    /\ since_id \in {NoneId} \cup {SomeId(id) : id \in IdPool}
    /\ x_pc = "headers"
    /\ x_host = 0
    /\ x_js = NoneJson
    /\ x_result = [data |-> <<>>, new_since |-> NoneId]

\* lines 339-340: h = _x_headers(); if not h: return None
XHeaders ==
    /\ x_pc = "headers"
    /\ IF bearer THEN x_pc' = "get" /\ x_host' = 1
       ELSE x_pc' = "return" /\ UNCHANGED x_host
    /\ x_js' = NoneJson
    /\ UNCHANGED <<bearer, timeline, since_id, x_result>>
    /\ UNCHANGED <<priceVars, posVars, tableVars>>

\* lines 341-347: one host of the loop: the request raises, answers not ok, or
\* answers ok with the JSON body
XGet ==
    /\ x_pc = "get"
    /\ \E o \in {"exc", "notok", "ok"} :
         IF o = "ok"
         THEN /\ x_js' = ApiJson(timeline, SinceParam(since_id), MaxResults)
              /\ x_pc' = "return"
              /\ UNCHANGED x_host
         ELSE /\ x_js' = NoneJson
              /\ IF x_host < NumHosts THEN x_host' = x_host + 1 /\ UNCHANGED x_pc
                 ELSE x_pc' = "return" /\ UNCHANGED x_host
    /\ UNCHANGED <<bearer, timeline, since_id, x_result>>
    /\ UNCHANGED <<priceVars, posVars, tableVars>>

\* lines 362-366
XReturn ==
    /\ x_pc = "return"
    /\ x_result' = FetchResult(x_js, since_id)
    /\ x_pc' = "done"
    /\ UNCHANGED <<bearer, timeline, since_id, x_host, x_js>>
    /\ UNCHANGED <<priceVars, posVars, tableVars>>

XNext == XHeaders \/ XGet \/ XReturn

(***************************************************************************)
(* Specifications                                                          *)
(***************************************************************************)
InitPrice == PriceInit /\ PosIdle /\ TableIdle /\ XIdle
InitPos   == PriceIdle /\ PosInit /\ TableIdle /\ XIdle
InitTable == PriceIdle /\ PosIdle /\ TableInit /\ XIdle
InitX     == PriceIdle /\ PosIdle /\ TableIdle /\ XInit

SpecPrice == InitPrice /\ [][PriceNext]_vars
SpecPos   == InitPos /\ [][PosNext]_vars
SpecTable == InitTable /\ [][TableNext]_vars
SpecX     == InitX /\ [][XNext]_vars

(***************************************************************************)
(* Properties of safe_yf_download                                          *)
(***************************************************************************)
IsPrimary(a)  == a.src \in {"history", "download"}
HasData(a)    == ~a.exc /\ Len(a.df.rows) > 0
NormalisedInterval == IF interval = "1h" THEN "60m" ELSE interval
\* an attempt made for the requested pair, as requested or with the alias replaced
IsExact(a)    == IsPrimary(a) /\ a.p = period /\ a.i \in {interval, NormalisedInterval}
ExactSuccess  == {k \in 1..Len(attempts) : IsExact(attempts[k]) /\ HasData(attempts[k])}
PrimaryAllFailed ==
    /\ \E k \in 1..Len(attempts) : attempts[k].src = "Stooq"
    /\ \A k \in 1..Len(attempts) : IsPrimary(attempts[k]) => ~HasData(attempts[k])
StooqAttempt == attempts[Len(attempts)]

\* C1 as stated: when the primary source returns a non-empty series for the exact
\* requested pair, the call returns that series tagged with the exact requested
\* (period, interval) and with an empty note.
C1_ExactSuccessNoNote ==
    (pc = "done" /\ ExactSuccess # {}) =>
        /\ \E k \in ExactSuccess : result.df.rows = attempts[k].df.rows
        /\ result.used = <<period, interval>>
        /\ ~Truthy(result.note)

\* C1 amended: when the primary source returns a non-empty series for the requested
\* pair, the call returns that series tagged with the requested period and the
\* normalised interval (1h is sent and reported as 60m), and the note is the label
\* of the primary call that produced it, never the Stooq note or an error.
C1_ExactSuccessTagged ==
    (pc = "done" /\ ExactSuccess # {}) =>
        /\ \E k \in ExactSuccess :
              /\ result.df.rows = attempts[k].df.rows
              /\ result.note = Label(IF attempts[k].src = "history"
                                     THEN "yfinance.history" ELSE "yfinance.download")
        /\ ~result.df.multi
        /\ result.used = <<period, NormalisedInterval>>

C1_Witness ==
    /\ pc = "done"
    /\ interval = "1h"
    /\ Len(attempts) = 2
    /\ attempts[2].src = "download" /\ attempts[2].df.multi
    /\ ExactSuccess = {2}
    /\ result.used = <<period, "60m">>

\* C2 as stated: when every primary attempt fails or is empty and the secondary
\* source returns a non-empty series, the call returns that series tagged
\* "stooq-daily" with a non-null note.
C2_StooqNonEmptyReturned ==
    (pc = "done" /\ PrimaryAllFailed /\ HasData(StooqAttempt)) =>
        /\ result.df.rows = StooqAttempt.df.rows
        /\ result.used # NoneUsed /\ result.used[1] = "stooq-daily"
        /\ Truthy(result.note)

\* C2 amended: when every primary attempt fails or is empty and the secondary
\* source's CSV has at least one row without a missing value, the call returns
\* those complete rows tagged ("stooq-daily", "1d") with the fallback note.
C2_StooqCompleteRowsReturned ==
    (pc = "done" /\ PrimaryAllFailed /\ ~StooqAttempt.exc
       /\ \E k \in 1..Len(StooqAttempt.df.rows) : ~StooqAttempt.df.rows[k].na) =>
        /\ result.df.rows = SelectSeq(StooqAttempt.df.rows, LAMBDA r : r.na = FALSE)
        /\ result.df.rows # <<>>
        /\ result.used = <<"stooq-daily", "1d">>
        /\ Truthy(result.note) /\ result.note.kind = "label"

C2_Witness ==
    /\ pc = "done"
    /\ PrimaryAllFailed
    /\ Len(StooqAttempt.df.rows) = 2
    /\ StooqAttempt.df.rows[1].na /\ ~StooqAttempt.df.rows[2].na
    /\ Len(result.df.rows) = 1
    /\ result.used = <<"stooq-daily", "1d">>

\* C3: safe_yf_download never raises: whatever each call to the primary history,
\* the primary download and the secondary source does (exception, empty series,
\* non-empty series), no exception leaves the function, a step is always possible
\* until it returns, it returns after at most one call per candidate plus two, and
\* what it returns is a (series, used pair, note) tuple.
C3_NeverRaises ==
    /\ pc \in {"start", "history", "download", "done"}
    /\ pc # "done" => ENABLED PriceNext
    /\ Len(attempts) <= Len(combos) + 2
    /\ pc = "done" =>
          /\ DOMAIN result = {"df", "used", "note"}
          /\ result.used = NoneUsed \/ Len(result.used) = 2
          /\ result.note.kind \in {"None", "label", "error"}

C3_Witness ==
    /\ pc = "done"
    /\ Len(combos) = 4
    /\ Len(attempts) = 6
    /\ \A k \in 1..Len(attempts) : attempts[k].exc
    /\ IsEmpty(result.df)

\* C4: whenever safe_yf_download returns an empty series, the note is populated
\* with the last error; an empty series never comes with a null note.
C4_EmptyHasErrorNote ==
    (pc = "done" /\ IsEmpty(result.df)) =>
        Truthy(result.note) /\ result.note.kind = "error"

(***************************************************************************)
(* Properties of sec_tsla_position_from_13f                                *)
(***************************************************************************)
PosFinished   == pos_pc \in {"done", "raised"}
\* the index named a document
PosResolved   == pos_url # 0
\* the document was downloaded: the request answered ok with a body
PosDownloaded == PosResolved /\ ~pos_text.exc /\ pos_text.ok /\ ~pos_text.body.blank
\* the <infoTable> elements of a document that parses
PosParsedItems ==
    IF pos_text.body.hasTable THEN pos_text.body.items ELSE <<>>
PosParsed ==
    /\ PosDownloaded
    /\ pos_text.body.wellformed
    /\ pos_text.body.hasTable \/ ~pos_text.body.wrapped
ItemIsTracked(it) ==
    \/ StartsWith(Strip(it.cusip), <<"8", "8", "1", "6", "0", "R">>)
    \/ ContainsNoCase(it.nameOfIssuer, <<"T", "E", "S", "L", "A">>)
NoTrackedItem ==
    \A k \in 1..Len(PosParsedItems) : ~ItemIsTracked(PosParsedItems[k])

\* C5 as stated: the zero snapshot is returned when the document is retrieved and
\* parsed but holds no line item of the tracked issuer, and None is returned when
\* the document cannot be resolved or downloaded; a failure never yields a snapshot.
C5_ZeroSnapshotOrNone ==
    PosFinished =>
        /\ (PosParsed /\ NoTrackedItem) => pos_result = ZeroSnapshot
        /\ ~PosDownloaded => pos_result = NonePos
        /\ pos_result.kind = "dict" => PosParsed

\* C5 amended: the zero snapshot is returned when the document is retrieved and
\* parsed but holds no line item of the tracked issuer; no snapshot is produced
\* when the document cannot be resolved or downloaded: None is returned when the
\* index or the document answers without a usable file or body, and the exception
\* leaves the function when the index or document request itself raises.
C5_ZeroSnapshotOrNoSnapshot ==
    PosFinished =>
        /\ (PosParsed /\ NoTrackedItem) => (pos_pc = "done" /\ pos_result = ZeroSnapshot)
        /\ ~PosDownloaded =>
              IF pos_pc = "raised" THEN pos_result = RaisedPos ELSE pos_result = NonePos
        /\ pos_pc = "raised" <=> (~PosDownloaded /\ (~PosResolved \/ pos_text.exc)
                                   /\ pos_result = RaisedPos)
        /\ pos_result.kind = "dict" => PosParsed

C5_Witness ==
    /\ pos_pc = "done"
    /\ PosParsed
    /\ Len(PosParsedItems) = 2
    /\ NoTrackedItem
    /\ pos_result = ZeroSnapshot

\* C10: every snapshot returned by sec_tsla_position_from_13f has shares >= 0 and
\* value_usd >= 0, whatever the numeric fields of the line items hold.
C10_SnapshotNonNegative ==
    (pos_pc = "done" /\ pos_result.kind = "dict") =>
        pos_result.shares >= 0 /\ pos_result.value_usd >= 0

(***************************************************************************)
(* Properties of build_13f_table                                           *)
(***************************************************************************)
RowsOf(rows, name) == {k \in 1..Len(rows) : rows[k].name = name}
HasSnapshot(pos)   == pos.kind = "dict"

\* C6: in every row the delta is null when fewer than two resolvable filings
\* exist (one filing listed, or the latest or previous snapshot absent) and
\* otherwise latest.shares - previous.shares, negative differences and zero
\* snapshots included.
C6_DeltaOfRow ==
    \A rows \in {out, table} : \A k \in 1..Len(rows) :
        LET f == fetched[rows[k].name] IN
        IF f.listed < 2 \/ ~HasSnapshot(f.latest) \/ ~HasSnapshot(f.prev)
        THEN ~rows[k].delta.some
        ELSE rows[k].delta.some /\ rows[k].delta.v = f.latest.shares - f.prev.shares

C6_Witness ==
    /\ tb_pc = "done"
    /\ \E k \in 1..Len(table) :
          /\ fetched[table[k].name].latest = ZeroSnapshot
          /\ table[k].delta.some /\ table[k].delta.v < 0
    /\ \E k \in 1..Len(table) :
          /\ fetched[table[k].name].listed = 1
          /\ table[k].shares.some /\ ~table[k].delta.some

\* C7: the returned table is sorted by latest shares descending, and rows of equal
\* latest shares keep the relative order of the input mapping.
C7_SortedStable ==
    tb_pc = "done" =>
        /\ Descending(table)
        /\ \A a, b \in 1..Len(table) :
              (a < b /\ table[a].shares = table[b].shares) => table[a].name < table[b].name

\* C8 as stated: the output holds a row for an institution only if a position
\* snapshot was obtained for its latest filing.
C8_RowOnlyWithSnapshot ==
    tb_pc = "done" =>
        \A k \in 1..Len(table) : HasSnapshot(fetched[table[k].name].latest)

\* C8 amended: build_13f_table omits the row of an institution exactly when it
\* lists no 13F filing or when a request for its listing, a filing index or a
\* document raises; an institution whose latest filing yields no snapshot (None:
\* unresolvable, not downloadable, not parseable) still gets its row, with null
\* shares, null value and null delta.
C8_RowUnlessRaisedOrUnlisted ==
    tb_pc = "done" =>
        \A m \in 1..NumManagers :
            LET f == fetched[m]
                made == f.listed >= 1 /\ f.latest.kind # "raised" /\ f.prev.kind # "raised"
            IN  /\ Cardinality(RowsOf(table, m)) = (IF made THEN 1 ELSE 0)
                /\ \A k \in RowsOf(table, m) :
                      IF HasSnapshot(f.latest)
                      THEN /\ table[k].shares = SomeInt(f.latest.shares)
                           /\ table[k].value_usd = SomeInt(f.latest.value_usd)
                      ELSE /\ ~table[k].shares.some
                           /\ ~table[k].value_usd.some
                           /\ ~table[k].delta.some

C8_Witness ==
    /\ tb_pc = "done"
    /\ \E k \in 1..Len(table) :
          /\ fetched[table[k].name].latest = NonePos
          /\ ~table[k].shares.some
    /\ \E m \in 1..NumManagers :
          /\ fetched[m].listed = 2 /\ fetched[m].prev.kind = "raised"
          /\ RowsOf(table, m) = {}

(***************************************************************************)
(* Properties of x_fetch_latest_tweets                                     *)
(***************************************************************************)
ReturnedIds == {x_result.data[k].id : k \in 1..Len(x_result.data)}

\* C9: called with cursor C, x_fetch_latest_tweets returns only items whose id is
\* greater than C and a cursor >= C: the highest id among the returned items, or
\* C itself when nothing was returned (nothing new, failed request, no credential).
C9_CursorIsHighestId ==
    x_pc = "done" =>
        /\ since_id.some => \A id \in ReturnedIds : NumVal(id) > NumVal(since_id.id)
        /\ since_id.some =>
              x_result.new_since.some /\ NumVal(x_result.new_since.id) >= NumVal(since_id.id)
        /\ IF ReturnedIds = {} THEN x_result.new_since = since_id
           ELSE /\ x_result.new_since.some
                /\ x_result.new_since.id \in ReturnedIds
                /\ \A id \in ReturnedIds : NumVal(id) <= NumVal(x_result.new_since.id)

(***************************************************************************)
(* Parse failures and failing institutions in build_13f_table              *)
(***************************************************************************)
\* the filing's document is found and downloaded
FilingDownloaded(fl) ==
    /\ ~fl.index.exc /\ fl.index.ok
    /\ \E k \in 1..Len(fl.index.files) :
          \/ fl.index.files[k].ext = "xml" /\ fl.index.files[k].info
          \/ fl.index.files[k].ext = "txt"
    /\ ~fl.get.exc /\ fl.get.ok /\ ~fl.get.body.blank
\* ... and its XML tree is malformed
FilingMalformed(fl) == FilingDownloaded(fl) /\ ~fl.get.body.wellformed
\* ... and it parses, with no line item of the tracked issuer
FilingZeroMatch(fl) ==
    /\ FilingDownloaded(fl) /\ fl.get.body.wellformed /\ fl.get.body.hasTable
    /\ \A k \in 1..Len(fl.get.body.items) : ~ItemIsTracked(fl.get.body.items[k])
\* the row of a manager whose latest filing has no line item of the tracked issuer
ZeroMatchRow(m, prev_pos) ==
    [name |-> m, shares |-> SomeInt(0), value_usd |-> SomeInt(0),
     delta |-> IF HasSnapshot(prev_pos) THEN SomeInt(0 - prev_pos.shares) ELSE NoInt]

\* C11 as stated: a malformed XML tree does not crash and is treated like a document
\* with zero matching line items: the snapshot is the zero snapshot and the row
\* of the institution is the row of a zero-match document.
C11_MalformedLikeZeroMatch ==
    \A m \in 1..NumManagers :
        (fetched[m].listed >= 1 /\ FilingMalformed(fetched[m].accs[1])) =>
            /\ fetched[m].latest = ZeroSnapshot
            /\ \A rows \in {out} \cup (IF tb_pc = "done" THEN {table} ELSE {}) :
                  fetched[m].prev.kind # "raised" =>
                      \E k \in 1..Len(rows) : rows[k] = ZeroMatchRow(m, fetched[m].prev)

\* C11 amended: a malformed XML tree does not crash; sec_tsla_position_from_13f
\* returns None for it (as for a document that cannot be downloaded) and the row
\* built from it has null shares, null value and null delta, whereas a document
\* with zero matching line items gives the zero snapshot and a row with shares 0
\* and value 0.
C11_MalformedIsNoSnapshot ==
    \A m \in 1..NumManagers :
        LET f == fetched[m]
            made == f.prev.kind # "raised"
        IN
        /\ (f.listed >= 1 /\ FilingMalformed(f.accs[1])) =>
              /\ f.latest = NonePos
              /\ \A rows \in {out} \cup (IF tb_pc = "done" THEN {table} ELSE {}) :
                    /\ made => \E k \in 1..Len(rows) : rows[k].name = m
                    /\ \A k \in 1..Len(rows) : rows[k].name = m =>
                          /\ ~rows[k].shares.some
                          /\ ~rows[k].value_usd.some
                          /\ ~rows[k].delta.some
        /\ (f.listed >= 1 /\ FilingZeroMatch(f.accs[1])) =>
              /\ f.latest = ZeroSnapshot
              /\ \A rows \in {out} \cup (IF tb_pc = "done" THEN {table} ELSE {}) :
                    /\ made => \E k \in 1..Len(rows) : rows[k] = ZeroMatchRow(m, f.prev)
                    /\ \A k \in 1..Len(rows) : rows[k].name = m =>
                          rows[k] = ZeroMatchRow(m, f.prev)

C11_Witness ==
    /\ tb_pc = "done"
    /\ Len(table) = 2
    /\ \E m, n \in 1..NumManagers :
          /\ fetched[m].listed >= 1 /\ FilingMalformed(fetched[m].accs[1])
          /\ fetched[n].listed >= 1 /\ FilingZeroMatch(fetched[n].accs[1])
          /\ \E k \in 1..Len(table) : table[k].name = m /\ ~table[k].shares.some
          /\ \E k \in 1..Len(table) : table[k].name = n /\ table[k].shares = SomeInt(0)

\* processing the institution failed: a request raised, or a listed filing
\* yielded no snapshot
ManagerFailed(f) ==
    \/ f.how = "raised"
    \/ f.listed >= 1 /\ f.latest.kind = "None"
    \/ f.listed >= 2 /\ f.prev.kind = "None"

\* the rows a table built for the institution m alone holds, given what the SEC
\* answers for its filings
RowsAlone(m, f) ==
    IF f.listed < 1 THEN {}
    ELSE LET lp == SecTslaPositionFrom13f(f.accs[1])
             pp == IF f.listed >= 2 THEN SecTslaPositionFrom13f(f.accs[2]) ELSE NonePos
         IN  IF lp.kind = "raised" \/ pp.kind = "raised" THEN {}
             ELSE {[name |-> m,
                    shares |-> IF HasSnapshot(lp) THEN SomeInt(lp.shares) ELSE NoInt,
                    value_usd |-> IF HasSnapshot(lp) THEN SomeInt(lp.value_usd) ELSE NoInt,
                    delta |-> IF HasSnapshot(lp) /\ HasSnapshot(pp)
                              THEN SomeInt(lp.shares - pp.shares) ELSE NoInt]}

\* C12: a failure (exception or unresolvable filing) while processing one
\* institution never aborts the batch: every other institution of the mapping is
\* still processed, and its row is the one a table without the failing
\* institution holds for it.
C12_FailureDoesNotAbort ==
    tb_pc = "done" =>
        \A m \in 1..NumManagers :
            (\E o \in 1..NumManagers : o # m /\ ManagerFailed(fetched[o])) =>
                /\ fetched[m].how # "pending"
                /\ {table[k] : k \in RowsOf(table, m)} = RowsAlone(m, fetched[m])
                /\ Cardinality(RowsOf(table, m)) = Cardinality(RowsAlone(m, fetched[m]))

C12_Witness ==
    /\ tb_pc = "done"
    /\ fetched[1].how = "raised"
    /\ fetched[2].how = "row"
    /\ Len(table) = 1
    /\ table[1].name = 2
    /\ table[1].shares = SomeInt(1000)
    /\ table[1].delta = SomeInt(993)

(***************************************************************************)
(* Order of the attempts of safe_yf_download                               *)
(***************************************************************************)
\* the fallback list as the claim describes it
ExpectedPairs ==
    <<<<period, NormalisedInterval>>>>
    \o (IF NormalisedInterval = "1m" /\ period \notin {"1d", "5d", "7d"}
        THEN <<<<"5d", "1m">>>> ELSE <<>>)
    \o (IF NormalisedInterval \in {"1m", "2m", "5m", "15m", "30m", "60m", "90m"}
           /\ period \notin {"1d", "5d", "7d", "1mo", "3mo", "6mo", "60d", "90d"}
        THEN <<<<"1mo", "5m">>>> ELSE <<>>)
    \o <<<<"1y", "1d">>>>

\* C13: in every run the primary attempts follow the fallback list (the requested
\* pair with the alias normalised, first through the history call and then through
\* download; then 5d/1m; then 1mo/5m; 1y/1d last, each under its condition), the
\* first non-empty result is returned tagged with the pair that produced it and
\* nothing is attempted after it, and the secondary source is attempted only after
\* every primary attempt failed or returned empty.
C13_AttemptOrder ==
    LET n == Len(attempts)
        e == Len(ExpectedPairs)
    IN
    /\ n <= e + 2
    /\ \A k \in 1..n :
          /\ k = 1 => /\ attempts[k].src = "history"
                      /\ <<attempts[k].p, attempts[k].i>> = ExpectedPairs[1]
          /\ (2 <= k /\ k <= e + 1) =>
                      /\ attempts[k].src = "download"
                      /\ <<attempts[k].p, attempts[k].i>> = ExpectedPairs[k - 1]
          /\ k = e + 2 => attempts[k].src = "Stooq"
          /\ k < n => ~HasData(attempts[k])
    /\ (n >= 1 /\ IsPrimary(attempts[n]) /\ HasData(attempts[n])) =>
          /\ pc = "done"
          /\ result.used = <<attempts[n].p, attempts[n].i>>
          /\ result.df.rows = attempts[n].df.rows
    /\ (pc = "done" /\ IsPrimary(attempts[n])) => HasData(attempts[n])
    /\ pc = "done" => n >= 1

C13_Witness ==
    /\ pc = "done"
    /\ period = "1y" /\ interval = "1m"
    /\ Len(attempts) = 4
    /\ attempts[2].exc
    /\ <<attempts[3].p, attempts[3].i>> = <<"5d", "1m">>
    /\ HasData(attempts[4])
    /\ result.used = <<"1mo", "5m">>

====
